---- MODULE Spec2Model ----
(***************************************************************************)
(* NewsBreeze: feed reading with scrape fallback (utils/news_fetcher.py),  *)
(* lazy singleton summarisation (utils/summarizer.py), voice narration     *)
(* with placeholder fallback (utils/voice_generator.py) and the Streamlit  *)
(* display loop (app.py).                                                  *)
(*                                                                         *)
(* Text is a sequence of one-character strings, so len(), slicing and      *)
(* str.split() are computed on the characters.                             *)
(***************************************************************************)
EXTENDS Integers, Sequences, FiniteSets, TLC

VARIABLES
    extractCall,   \* last call of fetch_article_content: inputs and return value
    fetchCall,     \* last call of fetch_news: feed, web responses and returned list
    summarizer,    \* utils/summarizer.py global `summarizer`: 0 is None, n > 0 the pipeline built by load n
    loadAttempts,  \* number of times load_summarizer entered its loading branch
    loadFailures,  \* number of those loads that raised
    sumCall,       \* last call of summarize_text: inputs, environment outcome, return value
    news_items,    \* st.session_state.news_items (<<>> while the key is absent)
    sumCalls,      \* per item of the current list: number of summarize_text calls made for it
    passes,        \* per item of the current list: number of passes of the loop body (0, 1, or 2 for more than one)
    loopPos,       \* position of the running script in the display loop (0: not in the loop)
    pressed,       \* index of the play button whose press started the running script (0: none)
    ttsInstalled,  \* whether `from TTS.api import TTS` succeeds
    refOnDisk,     \* reference_audio files that exist on disk
    tempFiles,     \* files created by tempfile.mkstemp so far: their sizes, in creation order
    voiceCall      \* last call of generate_voice_clone: inputs, faults, mode and return value

vars == <<extractCall, fetchCall, summarizer, loadAttempts, loadFailures, sumCall,
          news_items, sumCalls, passes, loopPos, pressed,
          ttsInstalled, refOnDisk, tempFiles, voiceCall>>

extractVars == <<extractCall>>
fetchVars == <<fetchCall>>
sumVars == <<summarizer, loadAttempts, loadFailures, sumCall>>
uiVars == <<news_items, sumCalls, passes, loopPos, pressed>>
voiceVars == <<ttsInstalled, refOnDisk, tempFiles, voiceCall>>

----------------------------------------------------------------------------
(* Text helpers                                                            *)

Min(a, b) == IF a <= b THEN a ELSE b

Max(a, b) == IF a >= b THEN a ELSE b

\* n copies of the character c
Rep(c, n) == [i \in 1..n |-> c]

\* Python's s[:n], negative n counting from the end
SliceTo(s, n) ==
    IF n >= 0 THEN SubSeq(s, 1, Min(n, Len(s)))
    ELSE SubSeq(s, 1, Max(0, Len(s) + n))

\* dict.get(key, default) on an optional field: <<>> is a missing key, <<v>> a present one
Get(field, default) == IF field = <<>> THEN default ELSE field[1]

\* Python truthiness of a str
Truthy(s) == Len(s) > 0

CONTENT_NOT_AVAILABLE ==
    <<"C","o","n","t","e","n","t"," ","n","o","t"," ",
      "a","v","a","i","l","a","b","l","e">>

NO_TITLE == <<"N","o"," ","t","i","t","l","e">>

NO_LINK == <<"#">>

NO_DESCRIPTION == <<"N","o"," ","d","e","s","c","r","i","p","t","i","o","n">>

NO_DATE == <<"N","o"," ","d","a","t","e">>

----------------------------------------------------------------------------
(* utils/news_fetcher.py: fetch_article_content                            *)
(*                                                                         *)
(* A response is what requests.get + raise_for_status + BeautifulSoup give *)
(* for a url: ok = FALSE when the request raises or the status is not a    *)
(* success; otherwise the parsed page, reduced to what the function reads: *)
(*   article, main, body : <<>> when soup.find gives None, else <<text>>   *)
(*                         with the element's get_text(' ', strip=True)    *)
(*   classed : the elements whose class is one of content /                *)
(*          article-content / story-content / entry-content, in document   *)
(*          order, each with its tag name and its text.                    *)

\* soup.find_all('div', class_=[...]): only <div> elements are searched
ClassDivs(page) ==
    LET isDiv(e) == e.tag = "div"
        divs == SelectSeq(page.classed, isDiv)
    IN  [i \in 1..Len(divs) |-> divs[i].text]

\* the loop over soup.find_all('div', class_=[...]): content is overwritten by each
\* div in turn and the loop stops at the first non-empty text
RECURSIVE DivLoop(_, _)
DivLoop(divs, content) ==
    IF divs = <<>> THEN content
    ELSE IF Truthy(Head(divs)) THEN Head(divs)
    ELSE DivLoop(Tail(divs), Head(divs))

AfterArticle(page) == IF page.article # <<>> THEN page.article[1] ELSE <<>>

AfterMain(page) ==
    LET content == AfterArticle(page)
    IN  IF ~Truthy(content) /\ page.main # <<>> THEN page.main[1] ELSE content

AfterDivs(page) ==
    LET content == AfterMain(page)
    IN  IF ~Truthy(content) THEN DivLoop(ClassDivs(page), content) ELSE content

\* soup.body.get_text raises AttributeError when there is no <body> (soup.body is None)
BodyRaises(page) == ~Truthy(AfterDivs(page)) /\ page.body = <<>>

AfterBody(page) ==
    LET content == AfterDivs(page)
    IN  IF ~Truthy(content) THEN page.body[1] ELSE content

fetch_article_content(resp, max_length) ==
    IF ~resp.ok THEN CONTENT_NOT_AVAILABLE
    ELSE IF BodyRaises(resp.page) THEN CONTENT_NOT_AVAILABLE
    ELSE SliceTo(AfterBody(resp.page), max_length)

----------------------------------------------------------------------------
(* Inputs of the extraction check                                          *)

MaxTextLen == 4
MaxClassed == 2
MaxMaxLength == 5

ExtractTexts == {<<>>, Rep("a", 2), Rep("b", MaxTextLen)}

Opt(S) == {<<>>} \cup {<<t>> : t \in S}

SeqsUpTo(S, n) == UNION {[1..k -> S] : k \in 0..n}

ClassedElems == [tag : {"div", "section"}, text : ExtractTexts]

Pages == [article : Opt(ExtractTexts), main : Opt(ExtractTexts),
          classed : SeqsUpTo(ClassedElems, MaxClassed), body : Opt(ExtractTexts)]

NoPage == [article |-> <<>>, main |-> <<>>, classed |-> <<>>, body |-> <<>>]

Responses == {[ok |-> FALSE, page |-> NoPage]} \cup [ok : {TRUE}, page : Pages]

MaxLengths == 1..MaxMaxLength

NoExtractCall == [done |-> FALSE, resp |-> [ok |-> FALSE, page |-> NoPage],
                  max_length |-> 0, ret |-> <<>>]

\* the call fetch_article_content(url, max_length) against a url answering resp
ExtractContent ==
    /\ ~extractCall.done
    /\ extractCall' = [extractCall EXCEPT
                         !.done = TRUE,
                         !.ret = fetch_article_content(extractCall.resp,
                                                       extractCall.max_length)]
    /\ UNCHANGED <<fetchVars, sumVars, uiVars, voiceVars>>

----------------------------------------------------------------------------
(* utils/news_fetcher.py: clean_html and fetch_news                        *)

\* the concatenation pieces[lo] \o ... \o pieces[hi], by halving
RECURSIVE ConcatRange(_, _, _)
ConcatRange(pieces, lo, hi) ==
    IF lo > hi THEN <<>>
    ELSE IF lo = hi THEN pieces[lo]
    ELSE LET mid == (lo + hi) \div 2
         IN  ConcatRange(pieces, lo, mid) \o ConcatRange(pieces, mid + 1, hi)

Flatten(pieces) == ConcatRange(pieces, 1, Len(pieces))

\* sep.join(parts)
Join(parts, sep) ==
    Flatten([i \in 1..Len(parts) |-> IF i = 1 THEN parts[i] ELSE sep \o parts[i]])

SetMax(S, default) == IF S = {} THEN default ELSE CHOOSE m \in S : \A x \in S : x <= m

SetMin(S, default) == IF S = {} THEN default ELSE CHOOSE m \in S : \A x \in S : m <= x

\* the positions of a markup string that belong to a tag <...>
TagPositions(s) ==
    LET opens == {j \in 1..Len(s) : s[j] = "<"}
        closes == {j \in 1..Len(s) : s[j] = ">"}
        inTag(i) == LET j == SetMax({o \in opens : o <= i}, 0)
                    IN  j > 0 /\ \A k \in closes : ~(j <= k /\ k < i)
    IN  {i \in 1..Len(s) : inTag(i)}

\* BeautifulSoup(html_text).get_text(separator=' ', strip=True): the text nodes are
\* the runs of characters outside tags; every node is stripped, the empty ones are
\* dropped, the rest are joined by one blank
clean_html(html_text) ==
    LET s == html_text
        tags == TagPositions(s)
        prevTag(i) == SetMax({t \in tags : t < i}, 0)
        nextTag(i) == SetMin({t \in tags : t > i}, Len(s) + 1)
        \* i survives the strip of its text node
        kept(i) == /\ i \notin tags
                   /\ \E k \in (prevTag(i) + 1)..i : s[k] # " "
                   /\ \E k \in i..(nextTag(i) - 1) : s[k] # " "
        keptSet == {i \in 1..Len(s) : kept(i)}
        firstOfNode(i) == \A k \in (prevTag(i) + 1)..(i - 1) : s[k] = " "
        piece(i) == IF i \notin keptSet THEN <<>>
                    ELSE IF firstOfNode(i) /\ \E p \in keptSet : p < i
                         THEN <<" ", s[i]>>
                         ELSE <<s[i]>>
    IN  Flatten([i \in 1..Len(s) |-> piece(i)])

SHORT_DESCRIPTION == 100

DEFAULT_MAX_LENGTH == 1000

\* the response requests.get gives for a link; a link without a scheme ('#', '')
\* makes requests.get raise
Fetch(web, link) ==
    IF link \in DOMAIN web THEN web[link] ELSE [ok |-> FALSE, page |-> NoPage]

\* the description after the enrichment step of the loop body
Enrich(description, link, web) ==
    IF Len(description) < SHORT_DESCRIPTION
    THEN fetch_article_content(Fetch(web, link), DEFAULT_MAX_LENGTH)
    ELSE description

\* the item built from one feed entry
NewsItem(entry, web) ==
    LET title == Get(entry.title, NO_TITLE)
        link == Get(entry.link, NO_LINK)
        description == clean_html(Get(entry.description,
                                      Get(entry.summary, NO_DESCRIPTION)))
    IN  [title |-> title, link |-> link,
         description |-> Enrich(description, link, web),
         published |-> Get(entry.published, NO_DATE)]

fetch_news(feed, web) ==
    IF feed.bozo THEN <<>>
    ELSE [i \in 1..Len(feed.entries) |-> NewsItem(feed.entries[i], web)]

----------------------------------------------------------------------------
(* Inputs of the feed check                                                *)

MaxEntries == 2
LongExtra == 1

\* "<p>Short</p>"
HTML_SHORT == <<"<","p",">","S","h","o","r","t","<","/","p",">">>

\* "<b> a </b> <i>b</i>"
HTML_SPACED == <<"<","b",">"," ","a"," ","<","/","b",">"," ","<","i",">","b","<","/","i",">">>

RawDescriptions ==
    {<<>>, HTML_SHORT, HTML_SPACED, Rep("y", SHORT_DESCRIPTION - 1), Rep("y", SHORT_DESCRIPTION)}

URL == <<"u">>

Entries == [title : Opt({<<>>, <<"T">>}),
            link : Opt({<<>>, URL}),
            description : Opt(RawDescriptions),
            summary : Opt({<<"S">>}),
            published : {<<>>}]

Feeds == [bozo : BOOLEAN, entries : SeqsUpTo(Entries, MaxEntries)]

PageOf(article, body) ==
    [article |-> article, main |-> <<>>, classed |-> <<>>, body |-> body]

LongText == Rep("z", DEFAULT_MAX_LENGTH + LongExtra)

\* what the linked page may answer: an error, an <article>, an empty <body>,
\* a document without <body>, a <body> with text
WebResponses ==
    {[ok |-> FALSE, page |-> NoPage],
     [ok |-> TRUE, page |-> PageOf(<<LongText>>, <<LongText>>)],
     [ok |-> TRUE, page |-> PageOf(<<>>, << <<>> >>)],
     [ok |-> TRUE, page |-> PageOf(<<>>, <<>>)],
     [ok |-> TRUE, page |-> PageOf(<<>>, <<Rep("w", 3)>>)]}

Webs == [{URL} -> WebResponses]

NoFetchCall == [done |-> FALSE, feed |-> [bozo |-> FALSE, entries |-> <<>>],
                web |-> [l \in {URL} |-> [ok |-> FALSE, page |-> NoPage]], ret |-> <<>>]

\* the call fetch_news(rss_url) against a feed and the pages its links answer with
FetchNews ==
    /\ ~fetchCall.done
    /\ fetchCall' = [fetchCall EXCEPT
                       !.done = TRUE,
                       !.ret = fetch_news(fetchCall.feed, fetchCall.web)]
    /\ UNCHANGED <<extractVars, sumVars, uiVars, voiceVars>>

----------------------------------------------------------------------------
(* utils/summarizer.py: load_summarizer and summarize_text                 *)

\* the positions where a whitespace-separated word starts
WordStarts(text) ==
    {i \in 1..Len(text) : text[i] # " " /\ (i = 1 \/ text[i - 1] = " ")}

\* len(text.split())
WordCount(text) == Cardinality(WordStarts(text))

\* text.split() on text[lo..hi] taken on its own: the words, in order, by halving;
\* a word cut by the middle is put together again
RECURSIVE SplitRange(_, _, _)
SplitRange(text, lo, hi) ==
    IF lo > hi THEN <<>>
    ELSE IF lo = hi THEN (IF text[lo] = " " THEN <<>> ELSE <<<<text[lo]>>>>)
    ELSE LET mid == (lo + hi) \div 2
             left == SplitRange(text, lo, mid)
             right == SplitRange(text, mid + 1, hi)
         IN  IF text[mid] # " " /\ text[mid + 1] # " "
             THEN SubSeq(left, 1, Len(left) - 1)
                    \o <<left[Len(left)] \o right[1]>>
                    \o SubSeq(right, 2, Len(right))
             ELSE left \o right

\* text.split(): the words, in order
Words(text) == SplitRange(text, 1, Len(text))

DEFAULT_MIN_LENGTH == 30

MAX_INPUT_LENGTH == 1024

\* tokenizer.decode(tokenizer.encode(text, truncation=True, max_length=n),
\* skip_special_tokens=True), with one token per word: at most n tokens are kept and
\* the decoded text has single blanks between them
TruncatedText(text, n) ==
    LET w == Words(text)
    IN  Join(SubSeq(w, 1, Min(n, Len(w))), <<" ">>)

\* load_summarizer without the `if summarizer is None` test: every call loads
load_summarizer_reload(st, loadOk) ==
    IF loadOk
    THEN [summarizer |-> st.loadAttempts + 1, loadAttempts |-> st.loadAttempts + 1,
          loadFailures |-> st.loadFailures, handle |-> st.loadAttempts + 1]
    ELSE [summarizer |-> st.summarizer, loadAttempts |-> st.loadAttempts + 1,
          loadFailures |-> st.loadFailures + 1, handle |-> 0]

\* load_summarizer() in state [summarizer, loadAttempts, loadFailures], where loadOk
\* tells whether from_pretrained / pipeline succeed; handle is the value returned
\* (0 is None)
load_summarizer(st, loadOk) ==
    IF st.summarizer = 0
    THEN IF loadOk
         THEN [summarizer |-> st.loadAttempts + 1, loadAttempts |-> st.loadAttempts + 1,
               loadFailures |-> st.loadFailures, handle |-> st.loadAttempts + 1]
         ELSE [summarizer |-> 0, loadAttempts |-> st.loadAttempts + 1,
               loadFailures |-> st.loadFailures + 1, handle |-> 0]
    ELSE [summarizer |-> st.summarizer, loadAttempts |-> st.loadAttempts,
          loadFailures |-> st.loadFailures, handle |-> st.summarizer]

\* what the pipeline stages do in one call: env.stage names the stage that fails
\* ("none": all succeed) and env.summary is the text the model generates
Stages == {"none", "tokenizer_raises", "pipeline_raises", "empty_result", "malformed_result"}

\* RunPipeline with the except branch returning the truncated text
RunPipeline_truncated(text, truncated_text, env) ==
    IF env.stage = "none" THEN env.summary ELSE truncated_text

\* the value returned once the pipeline is loaded (lines 80-104)
RunPipeline(text, truncated_text, env) ==
    IF env.stage = "none" THEN env.summary ELSE text

\* summarize_text with the summarizer loaded before the length test
summarize_text_eager(text, min_length, st, env) ==
    LET l == load_summarizer(st, env.loadOk)
        truncated_text == TruncatedText(text, MAX_INPUT_LENGTH)
        ran == l.handle # 0 /\ env.stage \notin {"tokenizer_raises", "pipeline_raises"}
    IN  IF WordCount(text) < min_length
        THEN [ret |-> text, summarizer |-> l.summarizer, loadAttempts |-> l.loadAttempts,
              loadFailures |-> l.loadFailures, loadCalled |-> TRUE, modelCalled |-> FALSE]
        ELSE [ret |-> IF l.handle = 0 THEN text ELSE RunPipeline(text, truncated_text, env),
              summarizer |-> l.summarizer, loadAttempts |-> l.loadAttempts,
              loadFailures |-> l.loadFailures, loadCalled |-> TRUE,
              modelCalled |-> ran]

\* summarize_text(text, max_length, min_length) in state st: the returned text, the
\* state after the call, whether load_summarizer was called and whether the model ran
summarize_text(text, min_length, st, env) ==
    IF WordCount(text) < min_length
    THEN [ret |-> text, summarizer |-> st.summarizer, loadAttempts |-> st.loadAttempts,
          loadFailures |-> st.loadFailures, loadCalled |-> FALSE, modelCalled |-> FALSE]
    ELSE LET l == load_summarizer(st, env.loadOk)
             truncated_text == TruncatedText(text, MAX_INPUT_LENGTH)
             ran == l.handle # 0 /\ env.stage \notin {"tokenizer_raises", "pipeline_raises"}
         IN  [ret |-> IF l.handle = 0 THEN text ELSE RunPipeline(text, truncated_text, env),
              summarizer |-> l.summarizer, loadAttempts |-> l.loadAttempts,
              loadFailures |-> l.loadFailures, loadCalled |-> TRUE,
              modelCalled |-> ran]

SumState == [summarizer |-> summarizer, loadAttempts |-> loadAttempts,
             loadFailures |-> loadFailures]

----------------------------------------------------------------------------
(* Inputs of the summariser check                                          *)

MaxLoads == 2
SmallMinLength == 3
BigExtra == 1

\* n words "a", separated by single blanks
WordsText(n) == [i \in 1..(IF n = 0 THEN 0 ELSE 2 * n - 1) |-> IF i % 2 = 1 THEN "a" ELSE " "]

SumTexts ==
    {<<>>,
     <<"a"," ","b">>,
     <<" ","a"," "," ","b"," ","c"," ">>,
     WordsText(DEFAULT_MIN_LENGTH - 1),
     WordsText(DEFAULT_MIN_LENGTH),
     WordsText(DEFAULT_MIN_LENGTH + BigExtra)}

MinLengths == {SmallMinLength, DEFAULT_MIN_LENGTH}

Summaries == {<<"s","u","m">>, <<>>}

SumEnvs == [loadOk : BOOLEAN, stage : Stages, summary : Summaries]

NoSumCall == [done |-> FALSE, text |-> <<>>, min_length |-> DEFAULT_MIN_LENGTH,
              env |-> [loadOk |-> TRUE, stage |-> "none", summary |-> <<>>],
              before |-> [summarizer |-> 0, loadAttempts |-> 0, loadFailures |-> 0],
              loadCalled |-> FALSE, modelCalled |-> FALSE, ret |-> <<>>]

\* one call summarize_text(text, min_length=min_length)
SummarizeText ==
    /\ \E text \in SumTexts, min_length \in MinLengths, env \in SumEnvs :
          LET r == summarize_text(text, min_length, SumState, env)
          IN  /\ r.loadAttempts <= MaxLoads
              /\ summarizer' = r.summarizer
              /\ loadAttempts' = r.loadAttempts
              /\ loadFailures' = r.loadFailures
              /\ sumCall' = [done |-> TRUE, text |-> text, min_length |-> min_length,
                             env |-> env, before |-> SumState,
                             loadCalled |-> r.loadCalled, modelCalled |-> r.modelCalled,
                             ret |-> r.ret]
    /\ UNCHANGED <<extractVars, fetchVars, uiVars, voiceVars>>


----------------------------------------------------------------------------
(* utils/voice_generator.py                                                *)
(*                                                                         *)
(* A temp file is its index in tempFiles (the order of creation); the path *)
(* returned by generate_voice_clone is such an index, 0 standing for None. *)
(* tempFiles[i] is the size of file i in bytes.                            *)

\* the keys of reference_files; the file mapped to a celebrity is named by the key
reference_files ==
    {"Morgan Freeman", "Oprah Winfrey", "Barack Obama", "Emma Watson", "David Attenborough"}

\* len("TTS is not available. Please install the TTS package to use voice cloning.")
PLACEHOLDER_SIZE == 74

\* load_tts_model(): the import succeeds or ImportError is caught
load_tts_model(installed) == installed

\* get_reference_audio_path without the os.path.exists test
get_reference_audio_path_unchecked(celebrity, onDisk) ==
    IF celebrity \in reference_files THEN <<celebrity>> ELSE <<>>

\* get_reference_audio_path(celebrity): <<>> is None; a failing os.makedirs is caught
\* and gives None as well
get_reference_audio_path(celebrity, onDisk) ==
    IF celebrity \in reference_files /\ celebrity \in onDisk
    THEN <<celebrity>>
    ELSE <<>>

\* the keyword arguments of the tts_to_file call chosen at lines 147-161
SynthesisArgs(reference_audio) ==
    IF reference_audio # <<>>
    THEN [speaker_wav |-> reference_audio, language |-> "en"]
    ELSE [speaker_wav |-> <<>>, language |-> "en"]

\* process_audio(audio_path): the size of the file afterwards. Normalisation rewrites
\* the samples in place; every failure is caught and leaves the file as it was
process_audio(size, env) ==
    IF env.audioProcessing /\ size # 0 /\ env.normalizeOk THEN size ELSE size

\* the except branch (lines 173-184): a new empty temp file, or None when mkstemp
\* raises again; files are the temp files existing when the exception is caught
ErrorPlaceholder(files, synth, env) ==
    IF env.handlerMkstempFails
    THEN [ret |-> 0, files |-> files, mode |-> "none", synth |-> synth]
    ELSE [ret |-> Len(files) + 1, files |-> Append(files, 0),
          mode |-> "error_placeholder", synth |-> synth]

\* the branch taken when load_tts_model() is False (lines 104-116)
UnavailableBranch(files, env) ==
    IF env.fault = "mkstemp" THEN ErrorPlaceholder(files, <<>>, env)
    ELSE IF env.fault = "write" THEN ErrorPlaceholder(Append(files, 0), <<>>, env)
    ELSE [ret |-> Len(files) + 1, files |-> Append(files, PLACEHOLDER_SIZE),
          mode |-> "placeholder_text", synth |-> <<>>]

\* the branch taken when the TTS package is importable (lines 118-171)
AvailableBranch(celebrity, files, onDisk, env) ==
    IF env.fault \in {"device", "model_load"} THEN ErrorPlaceholder(files, <<>>, env)
    ELSE LET reference_audio == get_reference_audio_path(celebrity, onDisk)
             args == SynthesisArgs(reference_audio)
         IN  IF env.fault = "mkstemp" THEN ErrorPlaceholder(files, <<>>, env)
             ELSE IF env.fault = "inference"
                  THEN ErrorPlaceholder(Append(files, 0), <<args>>, env)
                  ELSE [ret |-> Len(files) + 1,
                        files |-> Append(files, process_audio(env.audioSize, env)),
                        mode |-> "synthesized", synth |-> <<args>>]

\* generate_voice_clone(text, celebrity): ret is the returned path, files the temp
\* files afterwards, synth the arguments of the tts_to_file call if one was made
generate_voice_clone(text, celebrity, installed, onDisk, files, env) ==
    IF ~load_tts_model(installed)
    THEN UnavailableBranch(files, env)
    ELSE AvailableBranch(celebrity, files, onDisk, env)

----------------------------------------------------------------------------
(* Inputs of the narration check                                           *)

MaxTempFiles == 2
MaxAudioSize == 1

Celebrities == {"Morgan Freeman", "Emma Watson", "Unknown Voice"}

\* the reference files that may be present on disk
RefSamples == {"Morgan Freeman", "Barack Obama"}

Faults == {"none", "mkstemp", "write", "device", "model_load", "inference"}

AudioSizes == 1..MaxAudioSize

VoiceEnvs == [fault : Faults, handlerMkstempFails : BOOLEAN, audioProcessing : BOOLEAN,
              normalizeOk : BOOLEAN, audioSize : AudioSizes]

VoiceTexts == {<<"h","i">>}

NoVoiceCall == [done |-> FALSE, text |-> <<>>, celebrity |-> "Unknown Voice",
                fault |-> "none", installed |-> FALSE,
                ret |-> 0, mode |-> "none", synth |-> <<>>]

\* the record kept of one call
VoiceRecord(text, celebrity, env, r) ==
    [done |-> TRUE, text |-> text, celebrity |-> celebrity, fault |-> env.fault,
     installed |-> ttsInstalled,
     ret |-> r.ret, mode |-> r.mode, synth |-> r.synth]

\* one call generate_voice_clone(text, celebrity)
GenerateVoiceClone ==
    /\ \E text \in VoiceTexts, celebrity \in Celebrities, env \in VoiceEnvs :
          LET r == generate_voice_clone(text, celebrity, ttsInstalled, refOnDisk,
                                        tempFiles, env)
          IN  /\ Len(r.files) <= MaxTempFiles
              /\ tempFiles' = r.files
              /\ voiceCall' = VoiceRecord(text, celebrity, env, r)
    /\ UNCHANGED <<ttsInstalled, refOnDisk, extractVars, fetchVars, sumVars, uiVars>>


----------------------------------------------------------------------------
(* app.py: the fetch button and the display loop                           *)
(*                                                                         *)
(* Every interaction reruns the script from the top; a running script is   *)
(* abandoned when the next interaction arrives, so the loop advances one   *)
(* item at a time and a rerun may start from any position.                 *)

DISPLAY_LIMIT == 10

celebrity_voices == reference_files

\* an item as stored in the session: summary <<>> while the key is absent
Stored(items) ==
    [i \in 1..Len(items) |->
        [title |-> items[i].title, link |-> items[i].link,
         description |-> items[i].description, published |-> items[i].published,
         summary |-> <<>>]]

\* the loop body without the `if 'summary' not in item` test
NeedsSummary_always(item) == TRUE

\* `if 'summary' not in item`
NeedsSummary(item) == item.summary = <<>>

\* st.session_state.news_items[:10]
Displayed(items) == SubSeq(items, 1, Min(Len(items), DISPLAY_LIMIT))

\* where the script stands once it reaches `if 'news_items' in st.session_state`
LoopStart(items) == IF items # <<>> THEN 1 ELSE 0

MaxItems == 2

\* the entries of the session's feeds have a short description; the page of the one
\* with a link has an <article> long enough to be summarised, the one without a link
\* cannot be fetched
UIEntry(link) ==
    [title |-> <<<<"T">>>>, link |-> link, description |-> <<HTML_SHORT>>,
     summary |-> <<>>, published |-> <<>>]

UIEntries == {UIEntry(<<URL>>), UIEntry(<<>>)}

\* feeds of up to MaxItems like entries, and one feed that does not parse
UIFeeds == {[bozo |-> FALSE, entries |-> [i \in 1..n |-> e]] : e \in UIEntries, n \in 0..MaxItems}
               \cup {[bozo |-> TRUE, entries |-> <<UIEntry(<<URL>>)>>]}

UIArticle == WordsText(DEFAULT_MIN_LENGTH + BigExtra)

UIWeb == [l \in {URL} |-> [ok |-> TRUE, page |-> PageOf(<<UIArticle>>, <<UIArticle>>)]]

UISumEnvs == [loadOk : {TRUE}, stage : {"none", "pipeline_raises"}, summary : {<<"s","u","m">>}]

\* the values of selected_voice tried
UIVoices == {"Morgan Freeman"}

UIVoiceEnvs == [fault : {"none"}, handlerMkstempFails : {FALSE},
                audioProcessing : {FALSE}, normalizeOk : {TRUE}, audioSize : {1}]

\* the "Fetch Latest News" button (lines 70-82), then the script goes on to the loop
FetchButton ==
    /\ \E feed \in UIFeeds :
          LET fetched == fetch_news(feed, UIWeb)
          IN  IF fetched # <<>>
              THEN /\ news_items' = Stored(fetched)
                   /\ sumCalls' = [i \in 1..Len(fetched) |-> 0]
                   /\ passes' = [i \in 1..Len(fetched) |-> 0]
                   /\ loopPos' = 1
              ELSE /\ UNCHANGED <<news_items, sumCalls, passes>>
                   /\ loopPos' = LoopStart(news_items)
    /\ pressed' = 0
    /\ UNCHANGED <<extractVars, fetchVars, sumVars, voiceVars>>

\* any other interaction (sidebar selection, expander) reruns the script
Rerun ==
    /\ loopPos' = LoopStart(news_items)
    /\ pressed' = 0
    /\ UNCHANGED <<news_items, sumCalls, passes>>
    /\ UNCHANGED <<extractVars, fetchVars, sumVars, voiceVars>>

\* pressing the play button of a displayed item reruns the script with that button set
PressPlay ==
    /\ \E i \in 1..Len(Displayed(news_items)) : pressed' = i
    /\ loopPos' = 1
    /\ UNCHANGED <<news_items, sumCalls, passes>>
    /\ UNCHANGED <<extractVars, fetchVars, sumVars, voiceVars>>

\* one pass of the loop body (lines 87-117) for the item at loopPos
DisplayItem ==
    /\ loopPos \in 1..Len(Displayed(news_items))
    /\ LET i == loopPos
           item == news_items[i]
       IN  /\ IF NeedsSummary(item)
              THEN \E env \in UISumEnvs :
                     LET r == summarize_text(item.description, DEFAULT_MIN_LENGTH,
                                             SumState, env)
                     IN  /\ r.loadAttempts <= MaxLoads
                         /\ news_items' = [news_items EXCEPT ![i].summary = <<r.ret>>]
                         /\ sumCalls' = [sumCalls EXCEPT ![i] = @ + 1]
                         /\ summarizer' = r.summarizer
                         /\ loadAttempts' = r.loadAttempts
                         /\ loadFailures' = r.loadFailures
              ELSE UNCHANGED <<news_items, sumCalls, summarizer, loadAttempts, loadFailures>>
           /\ IF pressed = i
              THEN \E celebrity \in UIVoices, env \in UIVoiceEnvs :
                     LET r == generate_voice_clone(news_items'[i].summary[1], celebrity,
                                                   ttsInstalled, refOnDisk, tempFiles, env)
                     IN  /\ Len(r.files) <= MaxTempFiles
                         /\ tempFiles' = r.files
                         /\ voiceCall' = VoiceRecord(news_items'[i].summary[1],
                                                     celebrity, env, r)
              ELSE UNCHANGED <<tempFiles, voiceCall>>
           /\ passes' = [passes EXCEPT ![i] = Min(@ + 1, 2)]
           /\ loopPos' = IF i < Len(Displayed(news_items)) THEN i + 1 ELSE 0
    /\ UNCHANGED <<pressed, sumCall, ttsInstalled, refOnDisk>>
    /\ UNCHANGED <<extractVars, fetchVars>>

----------------------------------------------------------------------------
(* Specifications: one per component, over the same state. A component     *)
(* that a specification leaves alone stays in its state after import.      *)

\* fetch_article_content alone, on every response and max_length of the bounded sets
InitExtract ==
    /\ extractCall \in [done : {FALSE}, resp : Responses, max_length : MaxLengths,
                        ret : {<<>>}]
    /\ fetchCall = NoFetchCall
    /\ summarizer = 0 /\ loadAttempts = 0 /\ loadFailures = 0 /\ sumCall = NoSumCall
    /\ news_items = <<>> /\ sumCalls = <<>> /\ passes = <<>> /\ loopPos = 0 /\ pressed = 0
    /\ ttsInstalled = FALSE /\ refOnDisk = {} /\ tempFiles = <<>>
    /\ voiceCall = NoVoiceCall

SpecExtract == InitExtract /\ [][ExtractContent]_vars

\* fetch_news alone, on every feed and web of the bounded sets
InitFetch ==
    /\ extractCall = NoExtractCall
    /\ fetchCall \in [done : {FALSE}, feed : Feeds, web : Webs, ret : {<<>>}]
    /\ summarizer = 0 /\ loadAttempts = 0 /\ loadFailures = 0 /\ sumCall = NoSumCall
    /\ news_items = <<>> /\ sumCalls = <<>> /\ passes = <<>> /\ loopPos = 0 /\ pressed = 0
    /\ ttsInstalled = FALSE /\ refOnDisk = {} /\ tempFiles = <<>>
    /\ voiceCall = NoVoiceCall

SpecFetch == InitFetch /\ [][FetchNews]_vars

\* summarize_text alone: any sequence of calls in one process
InitSum ==
    /\ extractCall = NoExtractCall
    /\ fetchCall = NoFetchCall
    /\ summarizer = 0 /\ loadAttempts = 0 /\ loadFailures = 0 /\ sumCall = NoSumCall
    /\ news_items = <<>> /\ sumCalls = <<>> /\ passes = <<>> /\ loopPos = 0 /\ pressed = 0
    /\ ttsInstalled = FALSE /\ refOnDisk = {} /\ tempFiles = <<>>
    /\ voiceCall = NoVoiceCall

SpecSum == InitSum /\ [][SummarizeText]_vars

\* generate_voice_clone alone: any sequence of calls, the TTS package installed or
\* not, any of the sample reference files on disk
InitVoice ==
    /\ extractCall = NoExtractCall
    /\ fetchCall = NoFetchCall
    /\ summarizer = 0 /\ loadAttempts = 0 /\ loadFailures = 0 /\ sumCall = NoSumCall
    /\ news_items = <<>> /\ sumCalls = <<>> /\ passes = <<>> /\ loopPos = 0 /\ pressed = 0
    /\ ttsInstalled \in BOOLEAN /\ refOnDisk \in SUBSET RefSamples /\ tempFiles = <<>>
    /\ voiceCall = NoVoiceCall

SpecVoice == InitVoice /\ [][GenerateVoiceClone]_vars

\* the Streamlit session: the TTS package installed or not
InitUI ==
    /\ extractCall = NoExtractCall
    /\ fetchCall = NoFetchCall
    /\ summarizer = 0 /\ loadAttempts = 0 /\ loadFailures = 0 /\ sumCall = NoSumCall
    /\ news_items = <<>> /\ sumCalls = <<>> /\ passes = <<>> /\ loopPos = 0 /\ pressed = 0
    /\ ttsInstalled \in BOOLEAN /\ refOnDisk = RefSamples /\ tempFiles = <<>>
    /\ voiceCall = NoVoiceCall

NextUI == FetchButton \/ Rerun \/ PressPlay \/ DisplayItem

SpecUI == InitUI /\ [][NextUI]_vars

\* the whole program
Init == InitVoice

Next ==
    \/ ExtractContent
    \/ FetchNews
    \/ SummarizeText
    \/ GenerateVoiceClone
    \/ FetchButton
    \/ Rerun
    \/ PressPlay
    \/ DisplayItem

Spec == Init /\ [][Next]_vars

----------------------------------------------------------------------------
(* Claims                                                                  *)

\* the file a returned path names: 0 when the path is None or names no file
SizeOf(path) == IF path \in 1..Len(tempFiles) THEN tempFiles[path] ELSE 0

\* C1: every call of generate_voice_clone, whatever the availability of the model,
\* the reference sample and the outcome of synthesis, returns a non-null path whose
\* file exists and has size > 0.
C1_UsablePath ==
    voiceCall.done =>
        /\ voiceCall.ret # 0
        /\ voiceCall.ret \in 1..Len(tempFiles)
        /\ SizeOf(voiceCall.ret) > 0

\* the cleaned description of entry i of the feed last fetched
CleanedDescription(i) ==
    LET e == fetchCall.feed.entries[i]
    IN  clean_html(Get(e.description, Get(e.summary, NO_DESCRIPTION)))

\* the response the link of entry i answers with
ResponseOf(i) == Fetch(fetchCall.web, Get(fetchCall.feed.entries[i].link, NO_LINK))

\* the enrichment attempt fails: network error or bad status, or a page without <body>
EnrichmentFails(resp) == ~resp.ok \/ BodyRaises(resp.page)

\* C2: an item whose cleaned description is shorter than 100 characters and whose
\* enrichment attempt fails keeps the short cleaned description.
C2_ShortDescriptionKept ==
    fetchCall.done =>
        \A i \in 1..Len(fetchCall.ret) :
            (Len(CleanedDescription(i)) < SHORT_DESCRIPTION /\ EnrichmentFails(ResponseOf(i)))
                => fetchCall.ret[i].description = CleanedDescription(i)

\* C3: the string returned by fetch_article_content has length at most max_length,
\* for every page, every fetch outcome and every max_length.
C3_LengthBounded ==
    extractCall.done => Len(extractCall.ret) <= extractCall.max_length

\* the text the claimed priority order selects: the first rule whose element is
\* present with non-empty text, any element with one of the classes counting for
\* the third rule; <<>> when no rule selects anything
ClaimedSelection(page) ==
    LET nonEmpty(e) == e.text # <<>>
        classed == SelectSeq(page.classed, nonEmpty)
    IN  IF page.article # <<>> /\ page.article[1] # <<>> THEN page.article[1]
        ELSE IF page.main # <<>> /\ page.main[1] # <<>> THEN page.main[1]
        ELSE IF classed # <<>> THEN classed[1].text
        ELSE IF page.body # <<>> THEN page.body[1]
        ELSE <<>>

\* C4: for a page fetched successfully, fetch_article_content returns the text of the
\* first matching rule (article, main, element of a content class, body), cut at
\* max_length, and the sentinel "Content not available" when no rule matches and the
\* body is empty.
C4_FirstMatchingRule ==
    (extractCall.done /\ extractCall.resp.ok) =>
        LET selected == ClaimedSelection(extractCall.resp.page)
        IN  IF selected = <<>>
            THEN extractCall.ret = CONTENT_NOT_AVAILABLE
            ELSE extractCall.ret = SliceTo(selected, extractCall.max_length)

\* C5: every item returned by fetch_news has a non-empty title, a non-empty link and a
\* non-empty description.
C5_FieldsNonEmpty ==
    fetchCall.done =>
        \A i \in 1..Len(fetchCall.ret) :
            /\ fetchCall.ret[i].title # <<>>
            /\ fetchCall.ret[i].link # <<>>
            /\ fetchCall.ret[i].description # <<>>

\* C6: a call of summarize_text whose text has fewer than min_length words returns the
\* text unchanged, calls neither load_summarizer nor the model, and leaves the
\* singleton handle and the load counters as they were.
C6_ShortCircuit ==
    (sumCall.done /\ WordCount(sumCall.text) < sumCall.min_length) =>
        /\ sumCall.ret = sumCall.text
        /\ ~sumCall.loadCalled
        /\ ~sumCall.modelCalled
        /\ summarizer = sumCall.before.summarizer
        /\ loadAttempts = sumCall.before.loadAttempts
        /\ loadFailures = sumCall.before.loadFailures

\* a short text summarised while the handle was uninitialised: it still is
C6_Witness ==
    /\ sumCall.done
    /\ sumCall.text # <<>>
    /\ WordCount(sumCall.text) < sumCall.min_length
    /\ sumCall.before.summarizer = 0
    /\ sumCall.before.loadAttempts > 0
    /\ summarizer = 0

\* a stage of the last call failed: the load, the tokenizer, the inference, or the
\* inference gave nothing usable
StageFailed ==
    /\ sumCall.done
    /\ WordCount(sumCall.text) >= sumCall.min_length
    /\ \/ sumCall.before.summarizer = 0 /\ ~sumCall.env.loadOk
       \/ sumCall.env.stage # "none"

\* C7: when a stage of summarize_text fails, the value returned is exactly the input
\* text (not the truncated text, not a partial result).
C7_FailureReturnsInput == StageFailed => sumCall.ret = sumCall.text

\* the inference raised on a loaded pipeline for a text that decoding would change
C7_Witness ==
    /\ StageFailed
    /\ summarizer # 0
    /\ sumCall.env.stage = "pipeline_raises"
    /\ TruncatedText(sumCall.text, MAX_INPUT_LENGTH) # sumCall.text
    /\ sumCall.ret = sumCall.text

\* the fields of item i that fetch_news set are the same after the step
FetchedFieldsKept(i) ==
    /\ news_items'[i].title = news_items[i].title
    /\ news_items'[i].link = news_items[i].link
    /\ news_items'[i].description = news_items[i].description
    /\ news_items'[i].published = news_items[i].published

\* C8: over reruns, play-button presses and passes of the display loop on a fetched
\* list, the list keeps its items, every field set by fetch_news stays as fetched, and
\* an item whose summary is set keeps that summary and gets no further
\* summarize_text call.
C8_SummaryStable ==
    [][(Rerun \/ PressPlay \/ DisplayItem) =>
          /\ Len(news_items') = Len(news_items)
          /\ \A i \in 1..Len(news_items) :
                /\ FetchedFieldsKept(i)
                /\ news_items[i].summary # <<>> =>
                      /\ news_items'[i].summary = news_items[i].summary
                      /\ sumCalls'[i] = sumCalls[i]]_vars

\* an item displayed more than once, narrated, and summarised exactly once
C8_Witness ==
    \E i \in 1..Len(news_items) :
        /\ passes[i] = 2
        /\ sumCalls[i] = 1
        /\ news_items[i].summary = <<<<"s","u","m">>>>
        /\ pressed = i
        /\ voiceCall.done /\ voiceCall.text = <<"s","u","m">>

\* the exception branch was taken in the last call
Raised ==
    IF voiceCall.installed
    THEN voiceCall.fault \in {"device", "model_load", "mkstemp", "inference"}
    ELSE voiceCall.fault \in {"mkstemp", "write"}

\* the reference sample of the last call: the mapped file when it is on disk
ResolvedReference ==
    IF voiceCall.celebrity \in reference_files /\ voiceCall.celebrity \in refOnDisk
    THEN <<voiceCall.celebrity>>
    ELSE <<>>

\* C9: without the TTS package generate_voice_clone writes the explanatory placeholder
\* and never synthesises; with it, it synthesises in language "en", conditioned on the
\* reference file when the voice is mapped and the file is on disk, and with the
\* default voice (no speaker sample) otherwise, a missing file being no error.
C9_ModeSelection ==
    voiceCall.done =>
        /\ ~voiceCall.installed => voiceCall.synth = <<>>
        /\ (~voiceCall.installed /\ ~Raised) =>
              /\ voiceCall.mode = "placeholder_text"
              /\ SizeOf(voiceCall.ret) = PLACEHOLDER_SIZE
        /\ (voiceCall.installed /\ ~Raised) => voiceCall.mode = "synthesized"
        /\ voiceCall.mode = "synthesized" => voiceCall.synth # <<>>
        /\ voiceCall.synth # <<>> =>
              voiceCall.synth[1] = [speaker_wav |-> ResolvedReference, language |-> "en"]

\* a mapped voice whose reference file is missing was synthesised with the default voice
C9_Witness ==
    /\ voiceCall.done
    /\ voiceCall.installed
    /\ voiceCall.celebrity = "Emma Watson"
    /\ voiceCall.mode = "synthesized"
    /\ voiceCall.synth[1].speaker_wav = <<>>
    /\ SizeOf(voiceCall.ret) > 0

C11_AtMostOneTempFile ==
    [][GenerateVoiceClone => Len(tempFiles') <= Len(tempFiles) + 1]_vars

====
